---- MODULE Spec2Model ----
(***************************************************************************)
(* A model of src/ab_testing_project.py: the CookieCatsABTest object, its  *)
(* five public methods and run_full_analysis.                              *)
(*                                                                         *)
(* A DataFrame is the ordered sequence of its rows; a row keeps the four   *)
(* columns the analysis reads (version, sum_gamerounds, retention_1,       *)
(* retention_7). Plotting and console formatting are left out; what each   *)
(* method prints is kept as structured data in `report`.                   *)
(*                                                                         *)
(* numpy's process-global generator is the variable `rng`, a small linear  *)
(* congruential generator: a deterministic function of its state, advanced *)
(* by every draw. Rational numbers are pairs of integers.                  *)
(***************************************************************************)
EXTENDS Integers, Sequences, FiniteSets

VARIABLES
    df,          \* self.df
    cleaned_df,  \* self.cleaned_df
    rng,         \* state of numpy's global generator (np.random)
    report,      \* what the most recent method call printed or raised
    source,      \* history: what the last load_data call found at self.filepath
    pc,          \* run_full_analysis: the stage to run next ("idle": not running)
    run_trace,   \* history: the stages run_full_analysis has started so far
    assigned     \* history: assignments to self.cleaned_df within the current run

vars == <<df, cleaned_df, rng, report, source, pc, run_trace, assigned>>

----------------------------------------------------------------------------
(* Bounds of the model *)

\* rows of a dataset read from the file
MaxRows == 2
\* number of states of the random generator
RngMod == 8
\* rows of the synthetic dataset (n = 90189 in the source, scaled down)
SyntheticN == 4
\* bootstrap iterations (iterations = 1000 in the source, scaled down)
Iterations == 2
\* variant counts of the sample-ratio specification range over 0..MaxCount
MaxCount == 12

(* Program constants *)
OutlierThreshold == 3000
ExtremeRounds == 49854
SyntheticSeed == 42

----------------------------------------------------------------------------
(* Data *)

Versions == {"gate_30", "gate_40"}
RoundValues == {OutlierThreshold - 1, OutlierThreshold, ExtremeRounds}
Rows == [version : Versions, sum_gamerounds : RoundValues,
         retention_1 : BOOLEAN, retention_7 : BOOLEAN]

\* self.df = None / a DataFrame
None == [isNone |-> TRUE, rows |-> <<>>]
Frame(rows) == [isNone |-> FALSE, rows |-> rows]

\* every table a CSV file of at most MaxRows rows can hold
Datasets == UNION {[1..n -> Rows] : n \in 0..MaxRows}

RECURSIVE SumSeq(_)
SumSeq(s) == IF s = <<>> THEN 0 ELSE Head(s) + SumSeq(Tail(s))

\* the column `col` of the rows of one version, as numbers (True = 1)
Metric(r, col) ==
    CASE col = "retention_1" -> IF r.retention_1 THEN 1 ELSE 0
      [] col = "retention_7" -> IF r.retention_7 THEN 1 ELSE 0
      [] OTHER -> r.sum_gamerounds

RECURSIVE Column(_, _, _)
Column(rows, version, col) ==
    IF rows = <<>> THEN <<>>
    ELSE IF Head(rows).version = version
         THEN <<Metric(Head(rows), col)>> \o Column(Tail(rows), version, col)
         ELSE Column(Tail(rows), version, col)

----------------------------------------------------------------------------
(* The random generator *)

RngNext(s) == (5 * s + 1) % RngMod

\* np.random.seed(seed)
SeedState(seed) == seed % RngMod

\* the generator's state after each of k draws from state s
RECURSIVE RngStream(_, _)
RngStream(s, k) ==
    IF k = 0 THEN <<>> ELSE <<RngNext(s)>> \o RngStream(RngNext(s), k - 1)

\* an index below n from one draw: the uniform d/RngMod scaled to 0..n-1
RandomIndex(d, n) == (d * n) \div RngMod

\* np.random.choice(a, size=len(a), replace=True): one index draw per element
RECURSIVE Resample(_, _, _)
Resample(a, s, k) ==
    IF k = 0 THEN <<>>
    ELSE <<a[RandomIndex(RngNext(s), Len(a)) + 1]>> \o Resample(a, RngNext(s), k - 1)

RECURSIVE Advance(_, _)
Advance(s, k) == IF k = 0 THEN s ELSE Advance(RngNext(s), k - 1)

----------------------------------------------------------------------------
(* _generate_synthetic_data *)

\* np.random.choice(['gate_30', 'gate_40'], p=[0.495, 0.505]) from a uniform d/RngMod
SyntheticVersion(d) == IF d * 1000 < 495 * RngMod THEN "gate_30" ELSE "gate_40"

\* np.random.negative_binomial(n=1, p=0.02): right-skewed, increasing in the uniform
SyntheticRounds(d) == (50 * d) \div (RngMod - d)

\* np.random.random() < base_prob_1, base_prob_1 = min(0.85, 0.1 + r/50) (* 0.99)
SyntheticRetention1(v, r, d) ==
    LET base == IF 10 + 2 * r < 85 THEN 10 + 2 * r ELSE 85
        prob == IF v = "gate_40" THEN base * 99 ELSE base * 100
    IN  d * 10000 < prob * RngMod

\* np.random.random() < base_prob_7, base_prob_7 = min(0.60, 0.05 + r/100) (* 0.96)
SyntheticRetention7(v, r, d) ==
    LET base == IF 5 + r < 60 THEN 5 + r ELSE 60
        prob == IF v = "gate_40" THEN base * 96 ELSE base * 100
    IN  d * 10000 < prob * RngMod

\* the rows of the synthetic DataFrame, row 0 overwritten with the outlier
SyntheticData ==
    LET n == SyntheticN
        st == RngStream(SeedState(SyntheticSeed), 4 * n)
        v(i) == SyntheticVersion(st[i])
        r(i) == SyntheticRounds(st[n + i])
    IN  [i \in 1..n |->
            [version |-> v(i),
             sum_gamerounds |-> IF i = 1 THEN ExtremeRounds ELSE r(i),
             retention_1 |-> SyntheticRetention1(v(i), r(i), st[2 * n + 2 * i - 1]),
             retention_7 |-> SyntheticRetention7(v(i), r(i), st[2 * n + 2 * i])]]

SyntheticRng == Advance(SeedState(SyntheticSeed), 4 * SyntheticN)

----------------------------------------------------------------------------
(* State after __init__ *)

NoReport == [op |-> "none", err |-> "none", data |-> <<>>]
NoSource == [file |-> "none", content |-> <<>>]

Init ==
    /\ df = None
    /\ cleaned_df = None
    /\ rng \in 0..(RngMod - 1)
    /\ report = NoReport
    /\ source = NoSource
    /\ pc = "idle"
    /\ run_trace = <<>>
    /\ assigned = 0

----------------------------------------------------------------------------
(* load_data *)

FileStates == {"missing", "present", "unreadable"}

\* a handler that catches every exception
Recovered_Any(file) == TRUE

\* the exceptions of pd.read_csv that load_data recovers from
Recovered(file) == file = "missing"

load_data(file, content) ==
    /\ source' = [file |-> file, content |-> content]
    /\ IF file = "present"
       THEN /\ df' = Frame(content)
            /\ rng' = rng
            /\ report' = [op |-> "load_data", err |-> "none", data |-> <<Len(content)>>]
       ELSE IF Recovered(file)
       THEN /\ df' = Frame(SyntheticData)
            /\ rng' = SyntheticRng
            /\ report' = [op |-> "load_data", err |-> "none",
                          data |-> <<Len(SyntheticData)>>]
       ELSE /\ df' = df
            /\ rng' = rng
            /\ report' = [op |-> "load_data", err |-> "OSError", data |-> <<>>]
    /\ UNCHANGED cleaned_df

----------------------------------------------------------------------------
(* data_cleaning *)

RECURSIVE MaxOf(_)
MaxOf(s) == IF Len(s) = 1 THEN Head(s)
            ELSE IF Head(s) > MaxOf(Tail(s)) THEN Head(s) ELSE MaxOf(Tail(s))

Rounds(rows) == [i \in 1..Len(rows) |-> rows[i].sum_gamerounds]

KeepBelow(r) == r.sum_gamerounds < OutlierThreshold

BelowMax(rows) ==
    LET m == MaxOf(Rounds(rows))
        keep(r) == r.sum_gamerounds < m
    IN  SelectSeq(rows, keep)

\* a filter that drops the rows holding the maximum, whatever the maximum is
OutlierFilter_DropMax(rows) == IF rows # <<>> THEN BelowMax(rows) ELSE rows

\* lines 121-128; the max of an empty column is NaN, and NaN > 3000 is False
OutlierFilter(rows) ==
    IF rows # <<>> /\ MaxOf(Rounds(rows)) > OutlierThreshold
    THEN SelectSeq(rows, KeepBelow)
    ELSE rows

\* a cleaning step that filters self.df in place
data_cleaning_InPlace ==
    /\ ~df.isNone
    /\ df' = Frame(OutlierFilter(df.rows))
    /\ cleaned_df' = df'
    /\ assigned' = IF pc = "idle" THEN assigned ELSE assigned + 1
    /\ report' = [op |-> "data_cleaning", err |-> "none",
                  data |-> <<Len(OutlierFilter(df.rows))>>]
    /\ UNCHANGED <<rng, source>>

data_cleaning ==
    /\ IF df.isNone
       THEN /\ cleaned_df' = cleaned_df
            /\ assigned' = assigned
            /\ report' = [op |-> "data_cleaning", err |-> "TypeError", data |-> <<>>]
       ELSE /\ cleaned_df' = Frame(OutlierFilter(df.rows))
            /\ assigned' = IF pc = "idle" THEN assigned ELSE assigned + 1
            /\ report' = [op |-> "data_cleaning", err |-> "none",
                          data |-> <<Len(OutlierFilter(df.rows))>>]
    /\ UNCHANGED <<df, rng, source>>

----------------------------------------------------------------------------
(* Library behaviour that differs between releases of numpy and scipy: the  *)
(* source pins no release, so a call whose outcome depends on it has both.  *)
LibraryBehaviours == {"raises", "computes"}

----------------------------------------------------------------------------
(* sanity_check *)

Count(rows, version) ==
    Cardinality({i \in 1..Len(rows) : rows[i].version = version})

\* self.df['version'].value_counts().values: the counts of the versions present,
\* largest first
ValueCounts(rows) ==
    LET a == Count(rows, "gate_30")
        b == Count(rows, "gate_40")
        hi == IF a >= b THEN a ELSE b
        lo == IF a >= b THEN b ELSE a
    IN  IF hi = 0 THEN <<>> ELSE IF lo = 0 THEN <<hi>> ELSE <<hi, lo>>

\* line 104, doubled to stay in the integers: 2 * [sum(observed)/2, sum(observed)/2]
Expected2(observed) == <<SumSeq(observed), SumSeq(observed)>>

\* stats.chisquare's statistic sum((o - e)^2 / e) as the fraction num/den, for
\* two equal expected counts e = expected2[1]/2 = expected2[2]/2; an observed
\* vector of one count is broadcast against the two expected counts
ChiSquare(observed, expected2) ==
    LET o(i) == IF Len(observed) = 1 THEN observed[1] ELSE observed[i]
        sq(i) == (2 * o(i) - expected2[i]) * (2 * o(i) - expected2[i])
    IN  [num |-> sq(1) + sq(2), den |-> 2 * expected2[1]]

\* the same test at the 0.05 level (quantile 3.841)
SrmDetected_Alpha05(chi2) == chi2.num * 1000 > 3841 * chi2.den

\* p_value < 0.01 with one degree of freedom: the statistic is above the 0.99
\* quantile of chi-square(1), 6.6349 (no two counts with a total below 3621 give
\* a statistic between it and 6.635)
SrmDetected(chi2) == chi2.num * 1000 > 6635 * chi2.den

sanity_check(lib) ==
    /\ IF df.isNone
       THEN report' = [op |-> "sanity_check", err |-> "TypeError", data |-> <<>>]
       ELSE LET observed == ValueCounts(df.rows)
                expected2 == Expected2(observed)
            IN  IF Len(observed) = 0 \/ (Len(observed) = 1 /\ lib = "raises")
                THEN report' = [op |-> "sanity_check", err |-> "ValueError",
                                data |-> <<>>]
                ELSE report' = [op |-> "sanity_check", err |-> "none",
                                data |-> <<[observed |-> observed,
                                           chi2 |-> ChiSquare(observed, expected2),
                                           verdict |->
                                             IF SrmDetected(ChiSquare(observed, expected2))
                                             THEN "mismatch" ELSE "ok"]>>]
    /\ UNCHANGED <<df, cleaned_df, rng, source, assigned>>

----------------------------------------------------------------------------
(* analyze_retention *)

NaN == [nan |-> TRUE, num |-> 0, den |-> 1]

\* boot_t - boot_c, the difference of the two np.mean values, as a fraction
BootDiff(c, t) ==
    IF c = <<>> \/ t = <<>> THEN NaN
    ELSE [nan |-> FALSE,
          num |-> SumSeq(t) * Len(c) - SumSeq(c) * Len(t),
          den |-> Len(c) * Len(t)]

\* boot_diffs <= 0
IsLoss_OrEqual(d) == ~d.nan /\ d.num <= 0

\* boot_diffs < 0, elementwise (a comparison with NaN is False)
IsLoss(d) == ~d.nan /\ d.num < 0

\* lines 163-166: iteration i draws the control resample, then the treatment one
BootIteration(control, treatment, s, i) ==
    LET per == Len(control) + Len(treatment)
        s0 == Advance(s, (i - 1) * per)
        c == Resample(control, s0, Len(control))
        t == Resample(treatment, Advance(s0, Len(control)), Len(treatment))
    IN  [boot_c |-> c, boot_t |-> t, diff |-> BootDiff(c, t)]

\* lines 157-172 for one metric, from generator state s
Bootstrap(rows, metric, s) ==
    LET control == Column(rows, "gate_30", metric)
        treatment == Column(rows, "gate_40", metric)
        boots == [i \in 1..Iterations |-> BootIteration(control, treatment, s, i)]
        losses == Cardinality({i \in 1..Iterations : IsLoss(boots[i].diff)})
    IN  [metric |-> metric, control |-> control, treatment |-> treatment,
         boots |-> boots,
         prob_loss |-> [num |-> losses, den |-> Iterations],
         rng |-> Advance(s, Iterations * (Len(control) + Len(treatment)))]

analyze_retention(lib) ==
    /\ IF cleaned_df.isNone
       THEN /\ rng' = rng
            /\ report' = [op |-> "analyze_retention", err |-> "AttributeError",
                          data |-> <<>>]
       ELSE LET rows == cleaned_df.rows
                nc == Count(rows, "gate_30")
                nt == Count(rows, "gate_40")
                h1 == Bootstrap(rows, "retention_1", rng)
                h7 == Bootstrap(rows, "retention_7", h1.rng)
            IN  IF (nc = 0 \/ nt = 0) /\ lib = "raises"
                THEN \* np.random.choice on an empty array raises in the first iteration
                     /\ rng' = Advance(rng, nc)
                     /\ report' = [op |-> "analyze_retention", err |-> "ValueError",
                                   data |-> <<>>]
                ELSE /\ rng' = h7.rng
                     /\ report' = [op |-> "analyze_retention", err |-> "none",
                                   data |-> <<h1, h7>>]
    /\ UNCHANGED <<df, cleaned_df, source, assigned>>

----------------------------------------------------------------------------
(* analyze_gamerounds *)

\* twice the Mann-Whitney U statistic of x against y: 2 per pair x > y, 1 per tie
MannWhitneyU2(x, y) ==
    LET pair(i, j) == IF x[i] > y[j] THEN 2 ELSE IF x[i] = y[j] THEN 1 ELSE 0
        row(i) == SumSeq([j \in 1..Len(y) |-> pair(i, j)])
    IN  SumSeq([i \in 1..Len(x) |-> row(i)])

\* the p-value of the test and the verdict printed from it are not modelled
analyze_gamerounds(lib) ==
    /\ IF cleaned_df.isNone
       THEN report' = [op |-> "analyze_gamerounds", err |-> "TypeError", data |-> <<>>]
       ELSE LET control == Column(cleaned_df.rows, "gate_30", "sum_gamerounds")
                treatment == Column(cleaned_df.rows, "gate_40", "sum_gamerounds")
            IN  IF (control = <<>> \/ treatment = <<>>) /\ lib = "raises"
                THEN report' = [op |-> "analyze_gamerounds", err |-> "ValueError",
                                data |-> <<>>]
                ELSE report' = [op |-> "analyze_gamerounds", err |-> "none",
                                data |-> <<[control |-> control, treatment |-> treatment,
                                           u2 |-> MannWhitneyU2(control, treatment)]>>]
    /\ UNCHANGED <<df, cleaned_df, rng, source, assigned>>

----------------------------------------------------------------------------
(* run_full_analysis and direct calls *)

\* the comparators called before the cleaning step
NextStage_RetentionFirst(stage) ==
    CASE stage = "load_data" -> "sanity_check"
      [] stage = "sanity_check" -> "analyze_retention"
      [] stage = "analyze_retention" -> "data_cleaning"
      [] stage = "data_cleaning" -> "analyze_gamerounds"
      [] OTHER -> "done"

NextStage(stage) ==
    CASE stage = "load_data" -> "sanity_check"
      [] stage = "sanity_check" -> "data_cleaning"
      [] stage = "data_cleaning" -> "analyze_retention"
      [] stage = "analyze_retention" -> "analyze_gamerounds"
      [] OTHER -> "done"

\* a method called directly on the object
Direct == pc = "idle" /\ UNCHANGED <<pc, run_trace>>

\* a method called by run_full_analysis: an exception leaves run_full_analysis
Staged(stage) ==
    /\ pc = stage
    /\ run_trace' = Append(run_trace, stage)
    /\ pc' = IF report'.err # "none" THEN "aborted" ELSE NextStage(stage)

\* the Dataset is created once: load_data is called while the object has none
Call_load_data ==
    /\ pc = "idle"
    /\ df.isNone
    /\ \E file \in FileStates, content \in Datasets :
          /\ file # "present" => content = <<>>
          /\ load_data(file, content)
    /\ UNCHANGED assigned
    /\ Direct

Call_sanity_check ==
    /\ pc = "idle"
    /\ \E lib \in LibraryBehaviours : sanity_check(lib)
    /\ Direct

Call_data_cleaning ==
    /\ pc = "idle"
    /\ data_cleaning
    /\ Direct

Call_analyze_retention ==
    /\ pc = "idle"
    /\ \E lib \in LibraryBehaviours : analyze_retention(lib)
    /\ Direct

Call_analyze_gamerounds ==
    /\ pc = "idle"
    /\ \E lib \in LibraryBehaviours : analyze_gamerounds(lib)
    /\ Direct

\* run_full_analysis is called on a fresh object, as under __main__
Run_start ==
    /\ pc = "idle"
    /\ df.isNone /\ cleaned_df.isNone
    /\ pc' = "load_data"
    /\ run_trace' = <<>>
    /\ assigned' = 0
    /\ UNCHANGED <<df, cleaned_df, rng, report, source>>

Run_load_data ==
    /\ pc = "load_data"
    /\ \E file \in FileStates, content \in Datasets :
          /\ file # "present" => content = <<>>
          /\ load_data(file, content)
    /\ UNCHANGED assigned
    /\ Staged("load_data")

Run_sanity_check ==
    /\ pc = "sanity_check"
    /\ \E lib \in LibraryBehaviours : sanity_check(lib)
    /\ Staged("sanity_check")

Run_data_cleaning ==
    /\ pc = "data_cleaning"
    /\ data_cleaning
    /\ Staged("data_cleaning")

Run_analyze_retention ==
    /\ pc = "analyze_retention"
    /\ \E lib \in LibraryBehaviours : analyze_retention(lib)
    /\ Staged("analyze_retention")

Run_analyze_gamerounds ==
    /\ pc = "analyze_gamerounds"
    /\ \E lib \in LibraryBehaviours : analyze_gamerounds(lib)
    /\ Staged("analyze_gamerounds")

\* run_full_analysis returns (after the final recommendation) or has raised
Run_return ==
    /\ pc \in {"done", "aborted"}
    /\ pc' = "idle"
    /\ run_trace' = <<>>
    /\ assigned' = 0
    /\ UNCHANGED <<df, cleaned_df, rng, report, source>>

Next ==
    \/ Call_load_data
    \/ Call_sanity_check
    \/ Call_data_cleaning
    \/ Call_analyze_retention
    \/ Call_analyze_gamerounds
    \/ Run_start
    \/ Run_load_data
    \/ Run_sanity_check
    \/ Run_data_cleaning
    \/ Run_analyze_retention
    \/ Run_analyze_gamerounds
    \/ Run_return

Spec == Init /\ [][Next]_vars

----------------------------------------------------------------------------
(* The sample-ratio specification: sanity_check applied to datasets of a    *)
(* rows of gate_30 followed by b rows of gate_40.                           *)

SrmCounts == (0..MaxCount) \cup {100, 900}

SplitDataset(a, b) ==
    [i \in 1..(a + b) |->
        [version |-> IF i <= a THEN "gate_30" ELSE "gate_40",
         sum_gamerounds |-> OutlierThreshold - 1,
         retention_1 |-> TRUE, retention_7 |-> TRUE]]

InitSRM ==
    /\ \E a \in SrmCounts, b \in SrmCounts :
          /\ df = Frame(SplitDataset(a, b))
          /\ source = [file |-> "present", content |-> SplitDataset(a, b)]
    /\ cleaned_df = None
    /\ rng = 0
    /\ report = NoReport
    /\ pc = "idle"
    /\ run_trace = <<>>
    /\ assigned = 0

NextSRM == Call_sanity_check

SpecSRM == InitSRM /\ [][NextSRM]_vars

----------------------------------------------------------------------------
(* The filter specification: data_cleaning applied to every dataset of at   *)
(* most MaxRows rows.                                                       *)

InitFilter ==
    /\ \E content \in Datasets :
          /\ df = Frame(content)
          /\ source = [file |-> "present", content |-> content]
    /\ cleaned_df = None
    /\ rng = 0
    /\ report = NoReport
    /\ pc = "idle"
    /\ run_trace = <<>>
    /\ assigned = 0

NextFilter == Call_data_cleaning

SpecFilter == InitFilter /\ [][NextFilter]_vars

----------------------------------------------------------------------------
(* Claims *)

Range(s) == {s[i] : i \in 1..Len(s)}

HasOutlier(rows) == \E i \in 1..Len(rows) : rows[i].sum_gamerounds > OutlierThreshold

AtMostThreshold(r) == r.sum_gamerounds <= OutlierThreshold

\* C1: the Cleaned Dataset is exactly the rows of the Dataset whose
\* sum_gamerounds does not exceed 3000, in their order.
C1_CleanedIsRowsAtMostThreshold ==
    (~df.isNone /\ ~cleaned_df.isNone)
        => cleaned_df.rows = SelectSeq(df.rows, AtMostThreshold)

Diffs(h) == [i \in 1..Len(h.boots) |-> h.boots[i].diff]

Occurrences(seq, x) == Cardinality({i \in 1..Len(seq) : seq[i] = x})

\* two horizon results with the same prob_loss and the same diffs, each as often
SameResult(h1, h2) ==
    /\ h1.prob_loss = h2.prob_loss
    /\ \A d \in Range(Diffs(h1)) \cup Range(Diffs(h2)) :
          Occurrences(Diffs(h1), d) = Occurrences(Diffs(h2), d)

\* C2: two successive analyze_retention calls on the same Cleaned Dataset print
\* the same prob_loss and build the same diff distributions.
C2_RetentionDeterministic ==
    [][(/\ report.op = "analyze_retention" /\ report.err = "none"
        /\ report'.op = "analyze_retention" /\ report'.err = "none"
        /\ cleaned_df' = cleaned_df)
          => \A h \in 1..2 : SameResult(report'.data[h], report.data[h])]_vars

\* C3: analyze_retention on a Cleaned Dataset with no gate_30 rows or no gate_40
\* rows ends in an error, not in a prob_loss.
C3_EmptyVectorSignalsError ==
    (/\ report.op = "analyze_retention"
     /\ ~cleaned_df.isNone
     /\ (Count(cleaned_df.rows, "gate_30") = 0 \/ Count(cleaned_df.rows, "gate_40") = 0))
        => report.err # "none"

AnalysisProcedures == {"sanity_check", "analyze_retention", "analyze_gamerounds"}

\* C4: when an analysis procedure of run_full_analysis raises, the other
\* procedures of the pipeline still run.
C4_ErrorAbortsOnlyThatProcedure ==
    (/\ pc = "aborted"
     /\ run_trace[Len(run_trace)] \in AnalysisProcedures)
        => AnalysisProcedures \subseteq Range(run_trace)

\* C5: filtering the Cleaned Dataset again gives the Cleaned Dataset.
C5_FilterIdempotent ==
    ~cleaned_df.isNone => OutlierFilter(cleaned_df.rows) = cleaned_df.rows

C5_Witness ==
    /\ ~cleaned_df.isNone /\ ~df.isNone
    /\ HasOutlier(df.rows)
    /\ \E i \in 1..Len(df.rows) : df.rows[i].sum_gamerounds = OutlierThreshold
    /\ report.op = "data_cleaning"

\* C6: once the Dataset is loaded, sanity_check, data_cleaning, analyze_retention
\* and analyze_gamerounds leave it as it is.
C6_DatasetUnchanged ==
    [][(/\ ~df.isNone
        /\ report'.op \in {"sanity_check", "data_cleaning",
                           "analyze_retention", "analyze_gamerounds"})
          => df' = df]_vars

C6_Witness ==
    /\ ~df.isNone /\ ~cleaned_df.isNone
    /\ HasOutlier(df.rows)
    /\ cleaned_df # df
    /\ report.op = "analyze_gamerounds" /\ report.err = "none"

\* C7: for positive counts a and b the verdict is "mismatch" exactly when
\* (a-b)^2/(a+b) is above 6.635, so 100/100 is "ok" and 900/100 is "mismatch".
C7_VerdictIsChiSquareTest ==
    LET a == Count(df.rows, "gate_30")
        b == Count(df.rows, "gate_40")
    IN  (report.op = "sanity_check" /\ a > 0 /\ b > 0)
            => /\ report.err = "none"
               /\ report.data[1].verdict \in {"mismatch", "ok"}
               /\ report.data[1].verdict = "mismatch"
                    <=> (a - b) * (a - b) * 1000 > 6635 * (a + b)
               /\ a = b => report.data[1].verdict = "ok"

C7_Witness ==
    /\ report.op = "sanity_check" /\ report.err = "none"
    /\ Count(df.rows, "gate_30") = 900 /\ Count(df.rows, "gate_40") = 100
    /\ report.data[1].verdict = "mismatch"

\* C8: load_data sets the synthetic dataset exactly when the file is missing, the
\* file's table when it is present, and raises otherwise; no later step puts
\* other data in place of the Dataset or of its filtered copy.
C8_FallbackOnlyWhenMissing ==
    /\ source.file = "missing"
          => df = Frame(SyntheticData) /\ Len(df.rows) > 0
    /\ source.file = "present" => df = Frame(source.content)
    /\ source.file \in {"unreadable", "none"} => df.isNone
    /\ report.op = "load_data"
          => (report.err = "none" <=> source.file \in {"missing", "present"})
    /\ ~cleaned_df.isNone => cleaned_df.rows = OutlierFilter(df.rows)

C8_Witness ==
    /\ source.file = "missing"
    /\ report.op = "load_data" /\ report.err = "none"
    /\ df = Frame(SyntheticData)

StageOrder ==
    <<"load_data", "sanity_check", "data_cleaning",
      "analyze_retention", "analyze_gamerounds">>

Comparators == {"analyze_retention", "analyze_gamerounds"}

\* what the comparator that ran last read, as columns of the frame `f`
ReadFrom(f) ==
    IF report.op = "analyze_retention"
    THEN /\ report.data[1].control = Column(f.rows, "gate_30", "retention_1")
         /\ report.data[1].treatment = Column(f.rows, "gate_40", "retention_1")
         /\ report.data[2].control = Column(f.rows, "gate_30", "retention_7")
         /\ report.data[2].treatment = Column(f.rows, "gate_40", "retention_7")
    ELSE /\ report.data[1].control = Column(f.rows, "gate_30", "sum_gamerounds")
         /\ report.data[1].treatment = Column(f.rows, "gate_40", "sum_gamerounds")

\* C9: run_full_analysis runs its stages in the order load_data, sanity_check,
\* data_cleaning, analyze_retention, analyze_gamerounds; cleaned_df is assigned
\* once, before the comparators, and the comparators read it.
C9_StageOrder ==
    pc # "idle" =>
        /\ Len(run_trace) <= Len(StageOrder)
        /\ run_trace = SubSeq(StageOrder, 1, Len(run_trace))
        /\ pc \notin {"done", "aborted"} => pc = StageOrder[Len(run_trace) + 1]
        /\ pc = "done" => run_trace = StageOrder
        /\ assigned = IF pc \in Comparators \cup {"done"}
                         \/ Range(run_trace) \cap Comparators # {}
                      THEN 1 ELSE 0
        /\ (run_trace # <<>> /\ run_trace[Len(run_trace)] \in Comparators)
              => /\ report.op = run_trace[Len(run_trace)]
                 /\ ~cleaned_df.isNone
                 /\ report.err \notin {"TypeError", "AttributeError"}
                 /\ report.err = "none" => ReadFrom(cleaned_df)

C9_Witness ==
    /\ pc = "done"
    /\ run_trace = StageOrder
    /\ HasOutlier(df.rows)
    /\ cleaned_df # df
    /\ report.op = "analyze_gamerounds" /\ report.err = "none"
    /\ report.data[1].control # <<>> /\ report.data[1].treatment # <<>>

\* C10: each horizon holds Iterations diffs, each mean(resample of gate_40) -
\* mean(resample of gate_30) with resamples as long as their sources, and
\* prob_loss is the number of diffs strictly below 0 over Iterations.
C10_BootstrapDistribution ==
    (report.op = "analyze_retention" /\ report.err = "none") =>
        \A h \in 1..2 :
            LET H == report.data[h]
                lost == {i \in 1..Iterations :
                            /\ ~H.boots[i].diff.nan
                            /\ SumSeq(H.boots[i].boot_t) * Len(H.boots[i].boot_c)
                                 < SumSeq(H.boots[i].boot_c) * Len(H.boots[i].boot_t)}
            IN  /\ Len(H.boots) = Iterations
                /\ \A i \in 1..Iterations :
                      LET B == H.boots[i]
                      IN  /\ Len(B.boot_c) = Len(H.control)
                          /\ Len(B.boot_t) = Len(H.treatment)
                          /\ Range(B.boot_c) \subseteq Range(H.control)
                          /\ Range(B.boot_t) \subseteq Range(H.treatment)
                          /\ B.diff.nan <=> (H.control = <<>> \/ H.treatment = <<>>)
                          /\ ~B.diff.nan =>
                                /\ B.diff.den = Len(B.boot_c) * Len(B.boot_t)
                                /\ B.diff.num = SumSeq(B.boot_t) * Len(B.boot_c)
                                                  - SumSeq(B.boot_c) * Len(B.boot_t)
                /\ H.prob_loss.den = Iterations
                /\ H.prob_loss.num = Cardinality(lost)
                /\ 0 <= H.prob_loss.num /\ H.prob_loss.num <= H.prob_loss.den

C10_Witness ==
    /\ report.op = "analyze_retention" /\ report.err = "none"
    /\ \E i \in 1..Iterations :
          /\ ~report.data[1].boots[i].diff.nan
          /\ report.data[1].boots[i].diff.num < 0
    /\ report.data[1].prob_loss.num > 0
    /\ \E i \in 1..Iterations :
          /\ ~report.data[2].boots[i].diff.nan
          /\ report.data[2].boots[i].diff.num = 0
    /\ report.data[2].prob_loss.num < Iterations

====
